---- MODULE Spec2Model ----
(***************************************************************************)
(* Streaming mask propagation of demo/backend/server/app.py:               *)
(* the POST /propagate_in_video handler and the generator                  *)
(* gen_track_with_mask_stream that it hands to the WSGI transport.         *)
(*                                                                         *)
(* One request is one worker r.  A worker's handler validates the JSON     *)
(* payload, and on acceptance returns a Response that wraps the generator; *)
(* the transport then drives the generator with next() and writes every    *)
(* yielded message to the socket, and calls close() on it when a write     *)
(* fails.  The engine (inference_api) and the client are the environment.  *)
(***************************************************************************)
EXTENDS Integers, Sequences, FiniteSets, TLC

VARIABLES
    active,      \* the requests the server handles in this run
    payload,     \* payload[r]: the body of the POST, as request.json sees it
    engineSeq,   \* engineSeq[r]: the FrameResults the engine would yield
    failAt,      \* failAt[r]: the engine raises after yielding that many (NoFail: never)
    errKind,     \* errKind[r]: the error the engine raises then ("none": never)
    state,       \* state[r]: the call's state (Received, Validating, ...)
    status,      \* status[r]: the HTTP status of the response (0: none yet)
    outcome,     \* outcome[r]: how the stream ended
    gen,         \* gen[r]: position of the generator gen_track_with_mask_stream
    args,        \* args[r]: the arguments the generator was created with
    command,     \* command[r]: the request_data handed to the engine
    engineCalls, \* engineCalls[r]: calls of inference_api.propagate_in_video
    pulled,      \* pulled[r]: FrameResults obtained from the engine's sequence
    held,        \* held[r]: autocast_context is entered and not yet exited
    acquired,    \* acquired[r]: number of __enter__ of autocast_context
    released,    \* released[r]: number of __exit__ of autocast_context
    emitted,     \* emitted[r]: the messages the generator yielded, in order
    written,     \* written[r]: the messages written to the socket, in order
    delivered,   \* delivered[r]: how many messages the client received
    clientGone,  \* clientGone[r]: the client closed its socket
    detected,    \* detected[r]: a socket write failed (disconnect detected)
    codecPc,     \* position of a codec run: "idle", "encode", "decode", "done"
    codecIn,     \* the (headers, body) given to the codec
    wire,        \* the encoded message
    decoded      \* what decoding the encoded message returned

inputVars == <<active, payload, engineSeq, failAt, errKind>>
httpVars  == <<state, status, outcome>>
genVars   == <<gen, args, command, engineCalls, pulled>>
ctxVars   == <<held, acquired, released>>
ioVars    == <<emitted, written, delivered, clientGone, detected>>
codecVars == <<codecPc, codecIn, wire, decoded>>
vars      == <<inputVars, httpVars, genVars, ctxVars, ioVars, codecVars>>

(***************************************************************************)
(* Bounds of the model.                                                    *)
(***************************************************************************)
MaxFrames == 5      \* longest engine sequence explored
MaxHeaders == 2     \* most headers of a message given to the codec
MaxBody == 2        \* longest body, in tokens, drawn from all token sequences
ConcFrames == 2     \* longest engine sequence of each of two concurrent requests
NumSessions == 1    \* distinct session_id strings a payload may carry

(***************************************************************************)
(* JSON values, as request.json returns them: a tag and an integer code.   *)
(***************************************************************************)
Absent   == <<"absent", 0>>         \* the key is not in the object
JNull    == <<"null", 0>>           \* JSON null, Python None
JInt(n)  == <<"int", n>>
JStr(n)  == <<"str", n>>
JBool(b) == <<"bool", IF b THEN 1 ELSE 0>>
JList    == <<"list", 0>>


Reqs == {1, 2}      \* request ids; a run handles the ones in active

(***************************************************************************)
(* The payloads a client may post.  kind is what request.json makes of the *)
(* body: "malformed" (not JSON: request.json raises BadRequest), "null"    *)
(* (JSON null: None), "array", "string", "number" (JSON, but no dict), or  *)
(* "object" (a dict, whose three keys are each Absent or a JSON value).    *)
(***************************************************************************)
NonObjectKinds == {"malformed", "null", "array", "string", "number"}

SessionIdValues == {Absent, JNull, JInt(7), JList} \cup {JStr(n) : n \in 1..NumSessions}

StartFrameValues == {Absent, JInt(0), JInt(5), JInt(-1), JStr(0)}

QuickTestValues == {Absent, JBool(TRUE), JBool(FALSE)}

NonObject(k) ==
    [kind |-> k, session_id |-> Absent, start_frame_index |-> Absent,
     quick_test_mode |-> Absent]

Payloads ==
    {NonObject(k) : k \in NonObjectKinds}
    \cup [kind : {"object"}, session_id : SessionIdValues,
          start_frame_index : StartFrameValues, quick_test_mode : QuickTestValues]

(***************************************************************************)
(* The engine's sequences: n FrameResults with consecutive frame indices,  *)
(* and the number of results after which the engine raises, if it does.    *)
(***************************************************************************)
NoFail == -1

EngineStarts == {0, 5}

FrameSeq(first, n) == [i \in 1..n |-> [frame_index |-> first + i - 1, masks |-> "[]"]]

ErrorKinds == {"SessionNotFound", "InferenceFailure"}

EngineRuns ==
    {[results |-> FrameSeq(b, n), failAt |-> k, error |-> x] :
        b \in EngineStarts, n \in 0..MaxFrames, k \in {NoFail} \cup 0..MaxFrames,
        x \in ErrorKinds \cup {"none"}}

ValidRun(e) == e.failAt <= Len(e.results) /\ (e.error = "none" <=> e.failAt = NoFail)

(***************************************************************************)
(* Decimal text of an integer: Python's str(int).                          *)
(***************************************************************************)
Digit == <<"0", "1", "2", "3", "4", "5", "6", "7", "8", "9">>

RECURSIVE NatStr(_)
NatStr(n) == IF n < 10 THEN Digit[n + 1] ELSE NatStr(n \div 10) \o Digit[(n % 10) + 1]

IntStr(i) == IF i < 0 THEN "-" \o NatStr(-i) ELSE NatStr(i)

(***************************************************************************)
(* MultipartResponseBuilder: one message is the boundary marker on its own *)
(* line, one line per header in insertion order, a blank line, the body    *)
(* bytes and a line terminator.  Bytes are modelled as a sequence of       *)
(* tokens (byte strings); headers as a sequence of <<key, value>> pairs,   *)
(* a key and a value being sequences of tokens themselves.                 *)
(***************************************************************************)
CRLF == "\r\n"

RECURSIVE HeaderLines(_)
HeaderLines(headers) ==
    IF headers = <<>> THEN <<>>
    ELSE headers[1][1] \o <<": ">> \o headers[1][2] \o <<CRLF>>
         \o HeaderLines(Tail(headers))

\* The builder without the blank line that ends the headers
Build_NoBlankLine(boundary, headers, body) ==
    [message |-> <<"--", boundary, CRLF>> \o HeaderLines(headers) \o body \o <<CRLF>>]

Build(boundary, headers, body) ==
    [message |-> <<"--", boundary, CRLF>> \o HeaderLines(headers) \o <<CRLF>>
                 \o body \o <<CRLF>>]

GetMessage(builder) == builder.message

(***************************************************************************)
(* decode, the inverse of the builder for one message: the boundary line,  *)
(* header lines up to the blank line (a line splits at its first ": "),    *)
(* and the body, which is the rest less the final line terminator.         *)
(***************************************************************************)
Malformed == [ok |-> FALSE, headers |-> <<>>, body |-> <<>>]

\* Index of the first occurrence of token t in s, 0 when there is none
FirstIndex(s, t) ==
    IF \E i \in 1..Len(s) : s[i] = t
    THEN CHOOSE i \in 1..Len(s) : s[i] = t /\ \A j \in 1..(i - 1) : s[j] # t
    ELSE 0

RECURSIVE ParseHeaders(_, _)
ParseHeaders(s, acc) ==
    IF s = <<>> THEN Malformed
    ELSE IF s[1] = CRLF THEN [ok |-> TRUE, headers |-> acc, body |-> Tail(s)]
    ELSE LET e == FirstIndex(s, CRLF) IN
         IF e = 0 THEN Malformed
         ELSE LET line == SubSeq(s, 1, e - 1)
                  c    == FirstIndex(line, ": ")
              IN  IF c = 0 THEN Malformed
                  ELSE ParseHeaders(SubSeq(s, e + 1, Len(s)),
                                    Append(acc, <<SubSeq(line, 1, c - 1),
                                                  SubSeq(line, c + 1, Len(line))>>))

Decode(boundary, msg) ==
    LET n == Len(msg) IN
    IF n >= 5 /\ msg[1] = "--" /\ msg[2] = boundary /\ msg[3] = CRLF /\ msg[n] = CRLF
    THEN ParseHeaders(SubSeq(msg, 4, n - 1), <<>>)
    ELSE Malformed

(***************************************************************************)
(* chunk.to_json().encode("UTF-8"): the JSON document of one FrameResult.  *)
(***************************************************************************)
ToJsonBytes(chunk) ==
    <<"{\"frame_index\": ", IntStr(chunk.frame_index), ", \"results\": ",
      chunk.masks, "}">>

(***************************************************************************)
(* propagate_in_video, lines 78-98: the handler.                           *)
(***************************************************************************)
Boundary == "frame"

\* dict.get(key, default): the value when the key is present (null included)
DictGet(data, key, default) == IF data[key] = Absent THEN default ELSE data[key]

\* x is None
IsNone(v) == v = JNull

NoArgs == [session_id |-> Absent, start_frame_index |-> Absent, quick_test_mode |-> Absent]

\* The response the handler returns for data = request.json
Handle(data) ==
    IF data.kind = "malformed"
    THEN [verdict |-> "Rejected", status |-> 400, args |-> NoArgs]
    ELSE IF data.kind = "null"
    THEN [verdict |-> "Rejected", status |-> 400, args |-> NoArgs]
    ELSE IF data.kind # "object"
    THEN [verdict |-> "Errored", status |-> 500, args |-> NoArgs]
    ELSE LET session_id        == DictGet(data, "session_id", JNull)
             start_frame_index == DictGet(data, "start_frame_index", JInt(0))
             quick_test_mode   == DictGet(data, "quick_test_mode", JBool(FALSE))
         IN  IF IsNone(session_id)
             THEN [verdict |-> "Rejected", status |-> 400, args |-> NoArgs]
             ELSE [verdict |-> "Streaming", status |-> 200,
                   args |-> [session_id |-> session_id,
                             start_frame_index |-> start_frame_index,
                             quick_test_mode |-> quick_test_mode]]

(***************************************************************************)
(* gen_track_with_mask_stream, lines 101-129: the generator.               *)
(***************************************************************************)
\* PropagateInVideoRequest built without the quick_test_mode keyword
PropagateInVideoRequest_NoFlag(a) ==
    [type |-> "propagate_in_video", session_id |-> a.session_id,
     start_frame_index |-> a.start_frame_index, quick_test_mode |-> JBool(FALSE)]

\* PropagateInVideoRequest(type=..., session_id=..., start_frame_index=..., quick_test_mode=...)
PropagateInVideoRequest(a) ==
    [type |-> "propagate_in_video", session_id |-> a.session_id,
     start_frame_index |-> a.start_frame_index, quick_test_mode |-> a.quick_test_mode]

NoCommand ==
    [type |-> "none", session_id |-> Absent, start_frame_index |-> Absent,
     quick_test_mode |-> Absent]

\* The headers of every message, lines 121-127
StreamHeaders ==
    << << <<"Content-Type">>, <<"application/json; charset=utf-8">> >>,
       << <<"Frame-Current">>, <<"-1">> >>,
       << <<"Frame-Total">>, <<"-1">> >>,
       << <<"Mask-Type">>, <<"RLE[]">> >> >>

\* The message yielded for one chunk, lines 119-129
FrameMessage(chunk) == GetMessage(Build(Boundary, StreamHeaders, ToJsonBytes(chunk)))

\* with inference_api.autocast_context(): __enter__
EnterContext(r) ==
    /\ held' = [held EXCEPT ![r] = TRUE]
    /\ acquired' = [acquired EXCEPT ![r] = @ + 1]
    /\ UNCHANGED released

\* The context entered by hand and never exited
ExitContext_Leak(r) == UNCHANGED <<held, acquired, released>>

\* The exit of one context object shared by all requests: it ends every scope
ExitContext_Shared(r) ==
    /\ held' = [q \in Reqs |-> FALSE]
    /\ released' = [q \in Reqs |-> IF held[q] THEN released[q] + 1 ELSE released[q]]
    /\ UNCHANGED acquired

\* with inference_api.autocast_context(): __exit__, on leaving the block
ExitContext(r) ==
    /\ held' = [held EXCEPT ![r] = FALSE]
    /\ released' = [released EXCEPT ![r] = @ + 1]
    /\ UNCHANGED acquired

(***************************************************************************)
(* Initial state: the requests have arrived, nothing has run.              *)
(***************************************************************************)
IdlePayload == NonObject("null")

IdleRun == [results |-> <<>>, failAt |-> NoFail, error |-> "none"]

InitWith(A, P, E) ==
    /\ active = A
    /\ payload \in [Reqs -> P \cup {IdlePayload}]
    /\ \A r \in Reqs : r \notin A => payload[r] = IdlePayload
    /\ \E e \in [Reqs -> {x \in E : ValidRun(x)} \cup {IdleRun}] :
          /\ \A r \in Reqs : r \notin A => e[r] = IdleRun
          /\ engineSeq = [r \in Reqs |-> e[r].results]
          /\ failAt = [r \in Reqs |-> e[r].failAt]
          /\ errKind = [r \in Reqs |-> e[r].error]
    /\ state = [r \in Reqs |-> IF r \in A THEN "Received" ELSE "Idle"]
    /\ status = [r \in Reqs |-> 0]
    /\ outcome = [r \in Reqs |-> "none"]
    /\ gen = [r \in Reqs |-> "none"]
    /\ args = [r \in Reqs |-> NoArgs]
    /\ command = [r \in Reqs |-> NoCommand]
    /\ engineCalls = [r \in Reqs |-> 0]
    /\ pulled = [r \in Reqs |-> 0]
    /\ held = [r \in Reqs |-> FALSE]
    /\ acquired = [r \in Reqs |-> 0]
    /\ released = [r \in Reqs |-> 0]
    /\ emitted = [r \in Reqs |-> <<>>]
    /\ written = [r \in Reqs |-> <<>>]
    /\ delivered = [r \in Reqs |-> 0]
    /\ clientGone = [r \in Reqs |-> FALSE]
    /\ detected = [r \in Reqs |-> FALSE]

\* No codec run of its own: the codec works inside the generator
CodecIdle ==
    /\ codecPc = "idle"
    /\ codecIn = [headers |-> <<>>, body |-> <<>>]
    /\ wire = <<>>
    /\ decoded = Malformed

Init == InitWith({1}, Payloads, EngineRuns) /\ CodecIdle

(***************************************************************************)
(* The handler.                                                            *)
(***************************************************************************)
\* Validate with the execution context entered by the handler itself
Validate_EagerContext(r) ==
    /\ state[r] = "Validating"
    /\ LET resp == Handle(payload[r]) IN
          /\ state' = [state EXCEPT ![r] = resp.verdict]
          /\ status' = [status EXCEPT ![r] = resp.status]
          /\ args' = [args EXCEPT ![r] = resp.args]
          /\ gen' = [gen EXCEPT ![r] = IF resp.verdict = "Streaming" THEN "created" ELSE @]
    /\ EnterContext(r)
    /\ UNCHANGED <<inputVars, codecVars, outcome, command, engineCalls, pulled, ioVars>>

\* Flask routes the POST to propagate_in_video (line 77)
Dispatch(r) ==
    /\ state[r] = "Received"
    /\ state' = [state EXCEPT ![r] = "Validating"]
    /\ UNCHANGED <<inputVars, codecVars, status, outcome, genVars, ctxVars, ioVars>>

\* The handler runs, lines 78-98: a 400, an unhandled error, or a Response
\* that wraps the generator (created, not started)
Validate(r) ==
    /\ state[r] = "Validating"
    /\ LET resp == Handle(payload[r]) IN
          /\ state' = [state EXCEPT ![r] = resp.verdict]
          /\ status' = [status EXCEPT ![r] = resp.status]
          /\ args' = [args EXCEPT ![r] = resp.args]
          /\ gen' = [gen EXCEPT ![r] = IF resp.verdict = "Streaming" THEN "created" ELSE @]
    /\ UNCHANGED <<inputVars, codecVars, outcome, command, engineCalls, pulled, ctxVars, ioVars>>

(***************************************************************************)
(* The generator, driven by the transport's next().                        *)
(***************************************************************************)
\* First next(): lines 107-118, up to the call of inference_api.propagate_in_video
GenStart(r) ==
    /\ state[r] = "Streaming"
    /\ gen[r] = "created"
    /\ EnterContext(r)
    /\ command' = [command EXCEPT ![r] = PropagateInVideoRequest(args[r])]
    /\ engineCalls' = [engineCalls EXCEPT ![r] = @ + 1]
    /\ gen' = [gen EXCEPT ![r] = "awaitEngine"]
    /\ UNCHANGED <<inputVars, codecVars, httpVars, args, pulled, ioVars>>

\* EngineRaise with a release that only the normal exit performs
EngineRaise_NoRelease(r) ==
    /\ gen[r] = "awaitEngine"
    /\ failAt[r] = pulled[r]
    /\ gen' = [gen EXCEPT ![r] = "closed"]
    /\ state' = [state EXCEPT ![r] = "Aborted"]
    /\ outcome' = [outcome EXCEPT ![r] = "engine_error"]
    /\ status' = [status EXCEPT ![r] = IF written[r] = <<>> THEN 500 ELSE @]
    /\ UNCHANGED <<inputVars, codecVars, args, command, engineCalls, pulled, ctxVars, ioVars>>

\* Close with a release that only the normal exit performs
Close_NoRelease(r) ==
    /\ detected[r]
    /\ gen[r] = "atYield"
    /\ gen' = [gen EXCEPT ![r] = "closed"]
    /\ state' = [state EXCEPT ![r] = "Aborted"]
    /\ outcome' = [outcome EXCEPT ![r] = "disconnect"]
    /\ UNCHANGED <<inputVars, codecVars, status, args, command, engineCalls, pulled, ctxVars, ioVars>>

\* EngineYield with the results accumulated instead of yielded one by one
EngineYield_Buffered(r) ==
    /\ gen[r] = "awaitEngine"
    /\ pulled[r] < Len(engineSeq[r])
    /\ failAt[r] # pulled[r]
    /\ pulled' = [pulled EXCEPT ![r] = @ + 1]
    /\ UNCHANGED <<inputVars, codecVars, httpVars, gen, args, command, engineCalls, ctxVars, ioVars>>

\* EngineYield by a producer that does not wait at the yield: the message is
\* queued and the next result is requested at once
EngineYield_Eager(r) ==
    /\ gen[r] = "awaitEngine"
    /\ pulled[r] < Len(engineSeq[r])
    /\ failAt[r] # pulled[r]
    /\ LET chunk == engineSeq[r][pulled[r] + 1] IN
          emitted' = [emitted EXCEPT ![r] = Append(@, FrameMessage(chunk))]
    /\ pulled' = [pulled EXCEPT ![r] = @ + 1]
    /\ UNCHANGED <<inputVars, codecVars, httpVars, gen, args, command, engineCalls, ctxVars,
                   written, delivered, clientGone, detected>>

\* The engine yields its next FrameResult; the generator yields its message
\* (lines 118-129) and is suspended at the yield
EngineYield(r) ==
    /\ gen[r] = "awaitEngine"
    /\ pulled[r] < Len(engineSeq[r])
    /\ failAt[r] # pulled[r]
    /\ LET chunk == engineSeq[r][pulled[r] + 1] IN
          emitted' = [emitted EXCEPT ![r] = Append(@, FrameMessage(chunk))]
    /\ pulled' = [pulled EXCEPT ![r] = @ + 1]
    /\ gen' = [gen EXCEPT ![r] = "atYield"]
    /\ state' = [state EXCEPT ![r] = "Emitting"]
    /\ UNCHANGED <<inputVars, codecVars, status, outcome, args, command, engineCalls, ctxVars,
                   written, delivered, clientGone, detected>>

\* The engine's sequence is exhausted: the for loop and the with block end
EngineStop(r) ==
    /\ gen[r] = "awaitEngine"
    /\ pulled[r] = Len(engineSeq[r])
    /\ failAt[r] # pulled[r]
    /\ ExitContext(r)
    /\ gen' = [gen EXCEPT ![r] = "closed"]
    /\ state' = [state EXCEPT ![r] = "Completed"]
    /\ outcome' = [outcome EXCEPT ![r] = "ok"]
    /\ UNCHANGED <<inputVars, codecVars, status, args, command, engineCalls, pulled, ioVars>>

\* EngineRaise by a loop that calls the engine again when an element fails
EngineRaise_Retry(r) ==
    /\ gen[r] = "awaitEngine"
    /\ failAt[r] = pulled[r]
    /\ engineCalls[r] < 3
    /\ engineCalls' = [engineCalls EXCEPT ![r] = @ + 1]
    /\ UNCHANGED <<inputVars, codecVars, httpVars, gen, args, command, pulled, ctxVars,
                   ioVars>>

\* The engine raises: the exception leaves the with block and the generator;
\* the transport answers 500 when nothing was written yet, else cuts the stream
EngineRaise(r) ==
    /\ gen[r] = "awaitEngine"
    /\ failAt[r] = pulled[r]
    /\ ExitContext(r)
    /\ gen' = [gen EXCEPT ![r] = "closed"]
    /\ state' = [state EXCEPT ![r] = "Aborted"]
    /\ outcome' = [outcome EXCEPT ![r] = "engine_error"]
    /\ status' = [status EXCEPT ![r] = IF written[r] = <<>> THEN 500 ELSE @]
    /\ UNCHANGED <<inputVars, codecVars, args, command, engineCalls, pulled, ioVars>>

(***************************************************************************)
(* The transport: Response(frame, ...) iterated by the WSGI server.        *)
(***************************************************************************)
\* The yielded message is written to the socket, then next() is called
WriteOk(r) ==
    /\ state[r] = "Emitting"
    /\ gen[r] = "atYield"
    /\ ~detected[r]
    /\ written' = [written EXCEPT ![r] = Append(@, emitted[r][Len(emitted[r])])]
    /\ delivered' = [delivered EXCEPT ![r] = IF clientGone[r] THEN @ ELSE @ + 1]
    /\ gen' = [gen EXCEPT ![r] = "awaitEngine"]
    /\ state' = [state EXCEPT ![r] = "Streaming"]
    /\ UNCHANGED <<inputVars, codecVars, status, outcome, args, command, engineCalls, pulled,
                   ctxVars, emitted, clientGone, detected>>

\* The write fails because the client is gone: the disconnect is detected
WriteFail(r) ==
    /\ state[r] = "Emitting"
    /\ gen[r] = "atYield"
    /\ clientGone[r]
    /\ ~detected[r]
    /\ detected' = [detected EXCEPT ![r] = TRUE]
    /\ UNCHANGED <<inputVars, codecVars, httpVars, genVars, ctxVars, emitted, written, delivered,
                   clientGone>>

\* The transport closes the generator: GeneratorExit is raised at the yield
\* and leaves the with block
Close(r) ==
    /\ detected[r]
    /\ gen[r] = "atYield"
    /\ ExitContext(r)
    /\ gen' = [gen EXCEPT ![r] = "closed"]
    /\ state' = [state EXCEPT ![r] = "Aborted"]
    /\ outcome' = [outcome EXCEPT ![r] = "disconnect"]
    /\ UNCHANGED <<inputVars, codecVars, status, args, command, engineCalls, pulled, ioVars>>

\* CloseUnstarted by a transport that releases the context itself when it
\* drops a stream
CloseUnstarted_Release(r) ==
    /\ state[r] = "Streaming"
    /\ gen[r] = "created"
    /\ clientGone[r]
    /\ ExitContext(r)
    /\ gen' = [gen EXCEPT ![r] = "closed"]
    /\ state' = [state EXCEPT ![r] = "Aborted"]
    /\ outcome' = [outcome EXCEPT ![r] = "disconnect"]
    /\ UNCHANGED <<inputVars, codecVars, status, args, command, engineCalls, pulled, ioVars>>

\* The transport closes a generator it never started: its body never runs
CloseUnstarted(r) ==
    /\ state[r] = "Streaming"
    /\ gen[r] = "created"
    /\ clientGone[r]
    /\ gen' = [gen EXCEPT ![r] = "closed"]
    /\ state' = [state EXCEPT ![r] = "Aborted"]
    /\ outcome' = [outcome EXCEPT ![r] = "disconnect"]
    /\ UNCHANGED <<inputVars, codecVars, status, args, command, engineCalls, pulled, ctxVars, ioVars>>

\* The client closes its socket while the response is streaming
ClientDisconnect(r) ==
    /\ state[r] \in {"Streaming", "Emitting"}
    /\ ~clientGone[r]
    /\ clientGone' = [clientGone EXCEPT ![r] = TRUE]
    /\ UNCHANGED <<inputVars, codecVars, httpVars, genVars, ctxVars, emitted, written, delivered,
                   detected>>

Next ==
    \/ \E r \in active : Dispatch(r)
    \/ \E r \in active : Validate(r)
    \/ \E r \in active : GenStart(r)
    \/ \E r \in active : EngineYield(r)
    \/ \E r \in active : EngineStop(r)
    \/ \E r \in active : EngineRaise(r)
    \/ \E r \in active : WriteOk(r)
    \/ \E r \in active : WriteFail(r)
    \/ \E r \in active : Close(r)
    \/ \E r \in active : CloseUnstarted(r)
    \/ \E r \in active : ClientDisconnect(r)

Spec == Init /\ [][Next]_vars

\* The server's worker keeps running; the client is free to stay or leave
ServerStep(r) ==
    \/ Dispatch(r)
    \/ Validate(r)
    \/ GenStart(r)
    \/ EngineYield(r)
    \/ EngineStop(r)
    \/ EngineRaise(r)
    \/ WriteOk(r)
    \/ WriteFail(r)
    \/ Close(r)
    \/ CloseUnstarted(r)

(***************************************************************************)
(* Two requests handled concurrently against the one inference_api.        *)
(***************************************************************************)
ConcPayloads ==
    {p \in Payloads :
        /\ p.kind = "object"
        /\ p.session_id \in {Absent, JStr(1)}
        /\ p.start_frame_index = Absent
        /\ p.quick_test_mode = Absent}

ConcRuns ==
    {e \in EngineRuns :
        /\ Len(e.results) \in 1..ConcFrames
        /\ e.failAt \in {NoFail, 1}
        /\ e.error # "SessionNotFound"}

ConcInit == InitWith(Reqs, ConcPayloads, ConcRuns) /\ CodecIdle

ConcSpec == ConcInit /\ [][Next]_vars

FairSpec == Init /\ [][Next]_vars /\ \A r \in Reqs : WF_vars(ServerStep(r))

Terminal(r) == state[r] \in {"Rejected", "Completed", "Aborted"}

(***************************************************************************)
(* The codec on its own: one message is encoded, then decoded.             *)
(***************************************************************************)
\* Keys and values: plain ones, and ones that hold the separator or a line
\* terminator
HeaderKeys == {<<"a">>, <<"b">>, <<>>, <<"a", ": ", "b">>, <<"a", CRLF>>}

HeaderValues == {<<"v">>, <<>>, <<"v", ": ", "w">>, <<"v", CRLF, "b", ": ", "w">>}

HeaderPairs == {<<k, v>> : k \in HeaderKeys, v \in HeaderValues}

\* A mapping: no key twice
HeaderMaps ==
    {h \in UNION {[1..n -> HeaderPairs] : n \in 0..MaxHeaders} :
        \A i, j \in 1..Len(h) : i # j => h[i][1] # h[j][1]}

BodyTokens == {"x", CRLF, "--", Boundary}

Bodies ==
    UNION {[1..n -> BodyTokens] : n \in 0..MaxBody}
    \cup {<<"x", CRLF, "--", Boundary, CRLF, "y">>,
          <<"a", ": ", "v", CRLF, CRLF, "x">>}

CodecInit ==
    /\ InitWith({}, {}, {})
    /\ codecPc = "encode"
    /\ codecIn \in [headers : HeaderMaps, body : Bodies]
    /\ wire = <<>>
    /\ decoded = Malformed

CodecEncode ==
    /\ codecPc = "encode"
    /\ wire' = GetMessage(Build(Boundary, codecIn.headers, codecIn.body))
    /\ codecPc' = "decode"
    /\ UNCHANGED <<inputVars, httpVars, genVars, ctxVars, ioVars, codecIn, decoded>>

CodecDecode ==
    /\ codecPc = "decode"
    /\ decoded' = Decode(Boundary, wire)
    /\ codecPc' = "done"
    /\ UNCHANGED <<inputVars, httpVars, genVars, ctxVars, ioVars, codecIn, wire>>

CodecNext == CodecEncode \/ CodecDecode

CodecSpec == CodecInit /\ [][CodecNext]_vars

(***************************************************************************)
(* Reading a message back, for the properties below.                       *)
(***************************************************************************)
IsPrefix(s, t) == Len(s) <= Len(t) /\ SubSeq(t, 1, Len(s)) = s

\* The value of header key in an encoded message
HeaderValue(msg, key) ==
    LET j == CHOOSE j \in 1..(Len(msg) - 2) : msg[j] = key /\ msg[j + 1] = ": "
    IN  msg[j + 2]

\* The body of an encoded message that carries n headers
BodyOf(msg, n) == SubSeq(msg, 4 * n + 5, Len(msg) - 1)

(***************************************************************************)
(* C1: in one propagation call the execution context is acquired at most   *)
(* once, is released exactly once for every acquisition, is never released *)
(* twice, and is not held once the call is in a terminal state, whichever  *)
(* way consumption ends (exhaustion, engine error, close by the consumer). *)
(***************************************************************************)
C1_ScopedRelease ==
    \A r \in Reqs :
        /\ acquired[r] <= 1
        /\ released[r] <= acquired[r]
        /\ held[r] <=> (acquired[r] = released[r] + 1)
        /\ Terminal(r) => (~held[r] /\ released[r] = acquired[r])

C1_Witness ==
    \E r \in Reqs :
        /\ state[r] = "Aborted"
        /\ outcome[r] = "disconnect"
        /\ acquired[r] = 1
        /\ released[r] = 1
        /\ Len(written[r]) >= 1

(***************************************************************************)
(* C2: when the engine raises after yielding k results, exactly the k      *)
(* messages of those results were emitted and written, nothing is emitted  *)
(* afterwards, the context was released exactly once, and no message       *)
(* emitted or written is ever taken back.                                  *)
(***************************************************************************)
C2_AfterEngineError ==
    \A r \in Reqs :
        outcome[r] = "engine_error" =>
            /\ Len(emitted[r]) = failAt[r]
            /\ \A i \in 1..failAt[r] :
                  BodyOf(emitted[r][i], Len(StreamHeaders)) = ToJsonBytes(engineSeq[r][i])
            /\ written[r] = emitted[r]
            /\ released[r] = 1
            /\ ~held[r]

C2_NotRetracted ==
    \A r \in Reqs : IsPrefix(emitted[r], emitted'[r]) /\ IsPrefix(written[r], written'[r])

\* C2: after an engine error exactly the k messages stand, released once,
\* and no step ever takes back an emitted or written message
C2_ErrorTruncates == [](C2_AfterEngineError) /\ [][C2_NotRetracted]_vars

C2_Witness ==
    \E r \in Reqs :
        /\ outcome[r] = "engine_error"
        /\ failAt[r] = 2
        /\ Len(engineSeq[r]) = MaxFrames
        /\ Len(written[r]) = 2
        /\ released[r] = 1

(***************************************************************************)
(* C3: a sequence r1..rn that completes normally gives exactly n messages, *)
(* the i-th carrying the serialized body of ri, all written; and at every  *)
(* moment each result pulled so far was emitted, at most one of them not   *)
(* yet written (no buffering of the sequence).                             *)
(***************************************************************************)
C3_OnePerResult ==
    \A r \in Reqs :
        /\ pulled[r] = Len(emitted[r])
        /\ Len(emitted[r]) <= Len(written[r]) + 1
        /\ IsPrefix(written[r], emitted[r])
        /\ \A i \in 1..Len(emitted[r]) :
              BodyOf(emitted[r][i], Len(StreamHeaders)) = ToJsonBytes(engineSeq[r][i])
        /\ state[r] = "Completed" =>
              /\ Len(emitted[r]) = Len(engineSeq[r])
              /\ written[r] = emitted[r]

C3_Witness ==
    \E r \in Reqs :
        /\ state[r] = "Completed"
        /\ status[r] = 200
        /\ Len(written[r]) = 3
        /\ engineSeq[r][1].frame_index = 5
        /\ payload[r].start_frame_index = JInt(5)
        /\ payload[r].session_id[1] = "str"

(***************************************************************************)
(* C4: the Frame-Current header of each message is the frame index of the  *)
(* FrameResult it carries (indices 0,1,2,3 give "0","1","2","3").          *)
(***************************************************************************)
C4_FrameCurrentIsIndex ==
    \A r \in Reqs :
        \A i \in 1..Len(emitted[r]) :
            payload[r].session_id[1] = "str" =>
            HeaderValue(emitted[r][i], "Frame-Current") = IntStr(engineSeq[r][i].frame_index)

(***************************************************************************)
(* C5: a payload object whose session_id is absent or is not a string is   *)
(* answered 400 and never streams.                                         *)
(***************************************************************************)
Validated(r) == state[r] \notin {"Idle", "Received", "Validating"}

C5_NonStringSessionRejected ==
    \A r \in Reqs :
        (payload[r].kind = "object" /\ payload[r].session_id[1] # "str" /\ Validated(r))
            => (state[r] = "Rejected" /\ status[r] = 400)

(***************************************************************************)
(* C6: a body that is JSON but no object (null, array, string, number) is  *)
(* answered 400: the call is Rejected, never errors and never streams.     *)
(***************************************************************************)
C6_NonObjectRejected ==
    \A r \in Reqs :
        (payload[r].kind \in {"null", "array", "string", "number"} /\ Validated(r))
            => (state[r] = "Rejected" /\ status[r] = 400)

(***************************************************************************)
(* C7: a rejected request gets a 400 and no streaming body: no message is  *)
(* emitted or written, the engine is never called and the execution        *)
(* context is never acquired.                                              *)
(***************************************************************************)
C7_RejectedIsInert ==
    \A r \in Reqs :
        state[r] = "Rejected" =>
            /\ status[r] = 400
            /\ gen[r] = "none"
            /\ emitted[r] = <<>>
            /\ written[r] = <<>>
            /\ engineCalls[r] = 0
            /\ pulled[r] = 0
            /\ acquired[r] = 0
            /\ ~held[r]

C7_Witness ==
    \E r \in Reqs :
        /\ state[r] = "Rejected"
        /\ payload[r].kind = "object"
        /\ payload[r].session_id = Absent
        /\ payload[r].start_frame_index = JInt(5)

(***************************************************************************)
(* C8: the command handed to the engine carries the payload's session_id,  *)
(* its start_frame_index or 0 when absent, and its quick_test_mode or      *)
(* false when absent.                                                      *)
(***************************************************************************)
C8_CommandIsPayload ==
    \A r \in Reqs :
        engineCalls[r] > 0 =>
            /\ command[r].session_id = payload[r].session_id
            /\ command[r].start_frame_index =
                  (IF payload[r].start_frame_index = Absent THEN JInt(0)
                   ELSE payload[r].start_frame_index)
            /\ command[r].quick_test_mode =
                  (IF payload[r].quick_test_mode = Absent THEN JBool(FALSE)
                   ELSE payload[r].quick_test_mode)

C8_Witness ==
    \E r \in Reqs :
        /\ engineCalls[r] = 1
        /\ payload[r].session_id[1] = "str"
        /\ payload[r].start_frame_index = Absent
        /\ payload[r].quick_test_mode = Absent
        /\ command[r].start_frame_index = JInt(0)
        /\ command[r].quick_test_mode = JBool(FALSE)

(***************************************************************************)
(* C9: every command that reaches the engine has a start_frame_index that  *)
(* is a non-negative integer.                                              *)
(***************************************************************************)
C9_StartFrameIsNat ==
    \A r \in Reqs :
        (engineCalls[r] > 0 /\ payload[r].session_id[1] = "str") =>
            /\ command[r].start_frame_index[1] = "int"
            /\ command[r].start_frame_index[2] >= 0

(***************************************************************************)
(* C10: when the client disconnects mid-stream, after at least one message *)
(* was delivered, the call ends in Aborted without an error outcome.       *)
(* (The claim as stated: refuted when the engine's sequence ends or raises *)
(* before any write meets the closed socket.)                              *)
(***************************************************************************)
C10_DisconnectEndsAborted ==
    \A r \in Reqs :
        (clientGone[r] /\ delivered[r] >= 1 /\ state[r] \in {"Completed", "Aborted"})
            => (state[r] = "Aborted" /\ outcome[r] = "disconnect")

(***************************************************************************)
(* C10, amended: once a write has detected the disconnect (mid-stream,     *)
(* after at least one message was delivered), nothing more is pulled from  *)
(* the engine or emitted, no error outcome arises, and the call eventually *)
(* is Aborted by the disconnect with the execution context released once.  *)
(***************************************************************************)
C10_NoPullAfterDetect ==
    \A r \in Reqs :
        detected[r] =>
            /\ pulled'[r] = pulled[r]
            /\ engineCalls'[r] = engineCalls[r]
            /\ emitted'[r] = emitted[r]

C10_NoErrorOnDetect ==
    \A r \in Reqs :
        detected[r] => (outcome[r] \in {"none", "disconnect"} /\ status[r] = 200)

\* C10, amended: no pull and no error after the detection, and the detection
\* leads to Aborted by the disconnect with the context released once
C10_DetectedDisconnectAborts ==
    /\ [][C10_NoPullAfterDetect]_vars
    /\ [](C10_NoErrorOnDetect)
    /\ \A r \in Reqs :
          (detected[r] /\ delivered[r] >= 1) ~>
              (state[r] = "Aborted" /\ outcome[r] = "disconnect" /\ ~held[r]
               /\ released[r] = 1)

C10_Witness ==
    \E r \in Reqs :
        /\ detected[r]
        /\ delivered[r] = 1
        /\ state[r] = "Aborted"
        /\ outcome[r] = "disconnect"
        /\ released[r] = 1
        /\ pulled[r] < Len(engineSeq[r])

(***************************************************************************)
(* C11: backpressure.  At most one message is produced and not yet         *)
(* written, and a result is pulled from the engine only when every message *)
(* produced so far has been written to the socket.                         *)
(***************************************************************************)
C11_AtMostOneUnwritten ==
    \A r \in Reqs :
        /\ Len(emitted[r]) - Len(written[r]) \in {0, 1}
        /\ gen[r] = "awaitEngine" => written[r] = emitted[r]

C11_PullAfterWrite ==
    \A r \in Reqs : pulled'[r] # pulled[r] => written[r] = emitted[r]

\* C11: at most one unwritten message, and every pull follows the write of
\* the previous message
C11_Backpressure == [](C11_AtMostOneUnwritten) /\ [][C11_PullAfterWrite]_vars

C11_Witness ==
    \E r \in Reqs :
        /\ Len(written[r]) = 2
        /\ Len(emitted[r]) = 3
        /\ pulled[r] = 3
        /\ gen[r] = "atYield"

(***************************************************************************)
(* C12: a call moves only along Received -> Validating -> Rejected, or     *)
(* Received -> Validating -> Streaming -> (Emitting)* -> Completed or      *)
(* Aborted; in Rejected, Completed and Aborted nothing of the call changes *)
(* any more (no message, no pull, no state change).                        *)
(***************************************************************************)
CallTransitions ==
    {<<"Received", "Validating">>, <<"Validating", "Rejected">>,
     <<"Validating", "Streaming">>, <<"Streaming", "Emitting">>,
     <<"Emitting", "Streaming">>, <<"Streaming", "Completed">>,
     <<"Streaming", "Aborted">>, <<"Emitting", "Completed">>,
     <<"Emitting", "Aborted">>}

C12_Step ==
    \A r \in Reqs :
        /\ state'[r] # state[r] => <<state[r], state'[r]>> \in CallTransitions
        /\ Terminal(r) =>
              /\ state'[r] = state[r]
              /\ emitted'[r] = emitted[r]
              /\ written'[r] = written[r]
              /\ pulled'[r] = pulled[r]
              /\ engineCalls'[r] = engineCalls[r]
              /\ released'[r] = released[r]
              /\ acquired'[r] = acquired[r]

C12_StateMachine == [][C12_Step]_vars

(***************************************************************************)
(* C13: a SessionNotFound of the engine met before the first byte of the   *)
(* body is flushed is answered with a 4xx status; once bytes were flushed  *)
(* under the 200 it ends the stream and the status stays 200.              *)
(***************************************************************************)
C13_SessionNotFoundIs4xx ==
    \A r \in Reqs :
        (outcome[r] = "engine_error" /\ errKind[r] = "SessionNotFound") =>
            IF written[r] = <<>> THEN status[r] \in 400..499 ELSE status[r] = 200

(***************************************************************************)
(* C14: round trip.  For every headers mapping and every body, decoding    *)
(* the encoded message returns the same headers, in order, and the same    *)
(* body.  (The claim as stated.)                                           *)
(***************************************************************************)
RoundTrips ==
    decoded = [ok |-> TRUE, headers |-> codecIn.headers, body |-> codecIn.body]

C14_RoundTrip == codecPc = "done" => RoundTrips

(***************************************************************************)
(* C14, amended: the round trip holds for every body (also one that holds  *)
(* the boundary marker or line terminators) and every headers mapping      *)
(* whose keys hold neither the ": " separator nor a line terminator and    *)
(* whose values hold no line terminator.                                   *)
(***************************************************************************)
HasToken(s, t) == \E i \in 1..Len(s) : s[i] = t

PlainHeaders(h) ==
    \A i \in 1..Len(h) :
        /\ ~HasToken(h[i][1], ": ")
        /\ ~HasToken(h[i][1], CRLF)
        /\ ~HasToken(h[i][2], CRLF)

C14_RoundTripPlainHeaders ==
    (codecPc = "done" /\ PlainHeaders(codecIn.headers)) => RoundTrips

C14_Witness ==
    /\ codecPc = "done"
    /\ Len(codecIn.headers) = 2
    /\ PlainHeaders(codecIn.headers)
    /\ codecIn.headers[1][2] = <<"v", ": ", "w">>
    /\ codecIn.body = <<"x", CRLF, "--", Boundary, CRLF, "y">>
    /\ RoundTrips

(***************************************************************************)
(* C15: the execution context is acquired only by the first pull of the    *)
(* message sequence, in an accepted call whose response is committed to    *)
(* streaming: it is not held in Received, Validating or Rejected, and a    *)
(* call whose stream is closed before the first pull never acquires and    *)
(* never releases it.                                                      *)
(***************************************************************************)
C15_NotBeforeFirstPull ==
    \A r \in Reqs :
        /\ (state[r] \in {"Received", "Validating", "Rejected"}
            \/ gen[r] \in {"none", "created"})
              => (~held[r] /\ acquired[r] = 0 /\ released[r] = 0)
        /\ (gen[r] = "closed" /\ engineCalls[r] = 0)
              => (~held[r] /\ acquired[r] = 0 /\ released[r] = 0)

C15_AcquireIsFirstPull ==
    \A r \in Reqs :
        acquired'[r] # acquired[r] =>
            /\ state[r] = "Streaming"
            /\ status[r] = 200
            /\ gen[r] = "created"
            /\ pulled[r] = 0
            /\ engineCalls[r] = 0

\* C15: no acquisition before the first pull, and the acquisition is the
\* first pull of an accepted, streaming call
C15_AcquireOnFirstPull == [](C15_NotBeforeFirstPull) /\ [][C15_AcquireIsFirstPull]_vars

C15_Witness ==
    \E r \in Reqs :
        /\ state[r] = "Aborted"
        /\ outcome[r] = "disconnect"
        /\ gen[r] = "closed"
        /\ engineCalls[r] = 0
        /\ acquired[r] = 0
        /\ released[r] = 0

(***************************************************************************)
(* C16: no retries.  The engine is invoked at most once per request; once  *)
(* an element has failed the engine is neither invoked nor pulled again;   *)
(* and the engine is only ever pulled while the execution context is held. *)
(***************************************************************************)
C16_OneCallHeld ==
    \A r \in Reqs :
        /\ engineCalls[r] <= 1
        /\ gen[r] = "awaitEngine" => (held[r] /\ engineCalls[r] = 1)
        /\ outcome[r] = "engine_error" => gen[r] = "closed"

C16_NoPullAfterFailure ==
    \A r \in Reqs :
        /\ pulled'[r] # pulled[r] => (held[r] /\ held'[r])
        /\ engineCalls'[r] # engineCalls[r] => held'[r]
        /\ outcome[r] = "engine_error" =>
              (pulled'[r] = pulled[r] /\ engineCalls'[r] = engineCalls[r])

\* C16: one engine call, pulled only under the context, nothing after a failure
C16_NoRetries == [](C16_OneCallHeld) /\ [][C16_NoPullAfterFailure]_vars

C16_Witness ==
    \E r \in Reqs :
        /\ outcome[r] = "engine_error"
        /\ errKind[r] = "InferenceFailure"
        /\ engineCalls[r] = 1
        /\ pulled[r] = 2
        /\ Len(engineSeq[r]) > 2

(***************************************************************************)
(* C17: under fairness, with a finite engine sequence: an accepted call    *)
(* whose engine raises no error and whose client keeps reading eventually  *)
(* is Completed, every FrameResult delivered and the context released; and *)
(* every call, accepted or not, eventually is Rejected, Completed or       *)
(* Aborted.                                                                *)
(***************************************************************************)
C17_CompletesWhenRead ==
    \A r \in Reqs :
        (state[r] = "Streaming" /\ failAt[r] = NoFail) ~>
            (\/ clientGone[r]
             \/ /\ state[r] = "Completed"
                /\ delivered[r] = Len(engineSeq[r])
                /\ written[r] = emitted[r]
                /\ ~held[r]
                /\ released[r] = 1)

C17_EveryCallEnds == \A r \in Reqs : (state[r] = "Received") ~> Terminal(r)

\* C17: completion of a call that is read to its end, and termination of every call
C17_Termination == C17_CompletesWhenRead /\ C17_EveryCallEnds

(***************************************************************************)
(* C18: with two requests in flight, under every interleaving, a response  *)
(* carries only the messages of its own request's engine sequence, in that *)
(* sequence's order; each request's acquisition is released exactly once;  *)
(* and a step in which one request ends, errs or leaves its scope changes  *)
(* nothing of the other request.                                           *)
(***************************************************************************)
C18_OwnMessages ==
    \A r \in Reqs :
        /\ IsPrefix(written[r], emitted[r])
        /\ Len(emitted[r]) <= Len(engineSeq[r])
        /\ \A i \in 1..Len(emitted[r]) :
              BodyOf(emitted[r][i], Len(StreamHeaders)) = ToJsonBytes(engineSeq[r][i])
        /\ acquired[r] <= 1
        /\ released[r] <= acquired[r]
        /\ held[r] <=> (acquired[r] = released[r] + 1)
        /\ Terminal(r) => (~held[r] /\ released[r] = acquired[r])

C18_NoInterference ==
    \A r, q \in Reqs :
        (r # q /\ (state'[r] # state[r] \/ outcome'[r] # outcome[r]
                   \/ held'[r] # held[r] \/ detected'[r] # detected[r])) =>
            /\ state'[q] = state[q]
            /\ outcome'[q] = outcome[q]
            /\ gen'[q] = gen[q]
            /\ held'[q] = held[q]
            /\ acquired'[q] = acquired[q]
            /\ released'[q] = released[q]
            /\ emitted'[q] = emitted[q]
            /\ written'[q] = written[q]

\* C18: own messages in order, one release per acquisition, no interference
C18_Isolation == [](C18_OwnMessages) /\ [][C18_NoInterference]_vars

C18_Witness ==
    \E r, q \in Reqs :
        /\ r # q
        /\ outcome[r] = "engine_error"
        /\ released[r] = 1
        /\ engineSeq[r] # engineSeq[q]
        /\ held[q]
        /\ Len(written[r]) = 1
        /\ Len(written[q]) = 1
        /\ state[q] = "Emitting"

====
